---- MODULE Spec2Model ----
(***************************************************************************)
(* A model of so_5::impl::mbox_core_t (dev/so_5/impl/mbox_core.cpp): the   *)
(* registry that creates mboxes and mchains, hands out their identities    *)
(* and keeps the reference-counted dictionary of named mboxes.             *)
(*                                                                         *)
(* Every thread runs one operation at a time.  An operation is cut into    *)
(* steps at its accesses to shared state: the atomic increment of          *)
(* m_mbox_id_counter, the read of the message-tracing switch, the          *)
(* acquisition and the release of m_dictionary_lock.  Inside the critical  *)
(* section the steps follow the statements of the code, so that an         *)
(* exception can leave between any two of them.                            *)
(***************************************************************************)
EXTENDS Integers, FiniteSets, Sequences, Bags, TLC

\* ------------------------------------------------------------------ bounds
NThreads == 2
\* No operation that needs a new identity is started once the counter may
\* reach MaxId.
MaxId == 3
\* Named handles (named_local_mbox_t instances) alive at once.
MaxHandles == 4
\* Anonymous endpoints (mboxes, mchains) the callers keep alive at once.
MaxHeld == 2
\* No anonymous operation takes an identity once the counter is MaxAnonId.
MaxAnonId == 4
\* The width of mbox_id_t in bits, scaled down: the counter counts modulo
\* 2^mbox_id_bits.
mbox_id_bits == 3

Threads == 1 .. NThreads
Namespaces == {"", "g"}
Names == {"", "x"}

\* ------------------------------------------------------------------- state
VARIABLES
    m_mbox_id_counter,          \* std::atomic counter of identities
    m_named_mboxes_dictionary,  \* key -> [m_mbox, m_external_ref_count]
    m_dictionary_lock,          \* 0 (free) or the thread that holds it
    msg_tracing_enabled,        \* holder_t::is_msg_tracing_enabled()
    heap,                       \* the endpoints that exist: id -> object
    handles,                    \* bag of the named_local_mbox_t alive
    held,                       \* ids of the anonymous endpoints alive
    pc,                         \* thread -> position in its operation
    loc,                        \* thread -> locals of its operation
    id_log,                     \* history: the identities, as issued
    gate_parity,                \* history: toggles of the switch, mod 2
    ever_bound,                 \* history: key -> identities it was bound to
    dropped                     \* history: identities of dropped endpoints

vars == << m_mbox_id_counter, m_named_mboxes_dictionary, m_dictionary_lock,
           msg_tracing_enabled, heap, handles, held, pc, loc, id_log,
           gate_parity, ever_bound, dropped >>

history == << id_log, gate_parity, ever_bound, dropped >>

\* full_named_mbox_id_t{ namespace_name, nonempty_name.giveout_value() }
full_named_mbox_id_t(namespace_name, name) ==
    [ns |-> namespace_name, name |-> name]

NoKey == full_named_mbox_id_t("", "")

\* The keys a dictionary can hold.
Keys == {full_named_mbox_id_t(ns, n) : ns \in Namespaces, n \in Names \ {""}}

\* mchain_params_t::capacity(): unlimited or not, and how a limited chain
\* gets its memory.
CapacityParams ==
    [unlimited : BOOLEAN, memory_usage : {"dynamic", "preallocated"}]

NoParams == [unlimited |-> FALSE, memory_usage |-> "none"]

IdleLocal ==
    [op |-> "none", key |-> NoKey, it |-> NoKey, id |-> 0, mbox_ref |-> 0,
     result |-> 0, exc |-> "none", ref_count |-> 0, params |-> NoParams,
     stats |-> 0, before |-> << >>]

\* m_named_mboxes_dictionary.end(): no key has an empty name.
End == NoKey

\* nonempty_name_t refuses an empty name when it is constructed.
nonempty_name_t_ok(name) == name # ""

\* named_mbox_info_t( mbox_ref ): the entry of a just created named mbox.
named_mbox_info_t(mbox_ref) ==
    [m_mbox |-> mbox_ref, m_external_ref_count |-> 1]

\* A find that compares the names and forgets the namespaces.
Find_by_name_only(dict, key) ==
    IF \E k \in DOMAIN dict : k.name = key.name
    THEN CHOOSE k \in DOMAIN dict : k.name = key.name
    ELSE NoKey

\* m_named_mboxes_dictionary.find( key ): the entry's position, or end().
Find(dict, key) == IF key \in DOMAIN dict THEN key ELSE End

\* An emplace whose key is the name alone: the entry of the name is set in
\* every namespace.
Emplace_in_every_namespace(dict, key, info) ==
    [k \in DOMAIN dict
            \cup {full_named_mbox_id_t(ns, key.name) : ns \in Namespaces} |->
        IF k.name = key.name THEN info ELSE dict[k]]

\* m_named_mboxes_dictionary.emplace( key, info ): std::map inserts only
\* when the key is not there yet.
Emplace(dict, key, info) ==
    IF key \in DOMAIN dict
    THEN dict
    ELSE [k \in DOMAIN dict \cup {key} |-> IF k = key THEN info ELSE dict[k]]

\* An erase that is forgotten.
Erase_forgotten(dict, key) == dict

\* m_named_mboxes_dictionary.erase( it )
Erase(dict, key) == [k \in DOMAIN dict \ {key} |-> dict[k]]

\* An increment that is forgotten.
IncrementRefCount_forgotten(dict, key) == dict

\* ++(it->second.m_external_ref_count)
IncrementRefCount(dict, key) ==
    [dict EXCEPT ![key].m_external_ref_count = @ + 1]

\* A decrement applied to a copy of the entry.
DecrementRefCount_of_copy(dict, key) == dict

\* --(it->second.m_external_ref_count); the count of an entry is at least
\* 1 wherever the code decrements it, so the unsigned value never wraps.
DecrementRefCount(dict, key) ==
    [dict EXCEPT ![key].m_external_ref_count = @ - 1]

\* The comparison off by one.
IsLastRef_off_by_one(ref_count) == 1 >= ref_count

\* 0 == ref_count: the released reference was the last one.
IsLastRef(ref_count) == 0 = ref_count

\* The counter read and not incremented.
PreIncrement_forgotten(counter) == counter

\* The largest value of an mbox_id_t.
MaxCounter == 2 ^ mbox_id_bits - 1

\* ++m_mbox_id_counter on the unsigned mbox_id_t: after the largest value
\* comes 0, and nothing reports it.
PreIncrement(counter) == (counter + 1) % 2 ^ mbox_id_bits

\* The plain sibling whatever the switch says.
make_actual_mbox_always_plain(tracing_enabled, kind) ==
    [kind |-> kind, tracing |-> "without_tracing"]

\* The pick between the plain and the traced sibling of an endpoint type:
\* M1 when is_msg_tracing_enabled() is false, M2 otherwise.
make_actual_mbox(tracing_enabled, kind) ==
    [kind |-> kind,
     tracing |-> IF ~tracing_enabled THEN "without_tracing" ELSE "with_tracing"]

\* new local_mbox_without_tracing{ id, env } or
\* new local_mbox_with_tracing{ id, env, m_msg_tracing_stuff }
local_mbox(tracing_enabled) ==
    [kind |-> "local_mbox",
     tracing |-> IF ~tracing_enabled THEN "without_tracing" ELSE "with_tracing"]

\* The endpoint object of identity id joins the ones that exist; `born`
\* remembers the parity of the switch's toggles at that moment.
NewObject(h, id, type) ==
    [i \in DOMAIN h \cup {id} |->
        IF i = id THEN [type |-> type, born |-> gate_parity] ELSE h[i]]

\* The identities referenced by a dictionary, a bag of handles, the locals
\* of the threads and the callers: an endpoint lives while it is referenced.
Referenced(dict, hs, l, kept) ==
    {dict[k].m_mbox : k \in DOMAIN dict}
        \cup {h.mbox : h \in BagToSet(hs)}
        \cup {l[t].mbox_ref : t \in Threads}
        \cup {l[t].result : t \in Threads}
        \cup kept

Collect(h, dict, hs, l, kept) ==
    [i \in DOMAIN h \cap Referenced(dict, hs, l, kept) |-> h[i]]

\* The operation of thread t is over: its locals are gone, the bag of
\* handles is hs, and the endpoints nothing refers to any more are destroyed.
Leave(t, hs, kept) ==
    /\ pc' = [pc EXCEPT ![t] = "idle"]
    /\ loc' = [loc EXCEPT ![t] = IdleLocal]
    /\ handles' = hs
    /\ heap' = Collect(heap, m_named_mboxes_dictionary, hs, loc', kept)

HandlesOf(key) == {h \in BagToSet(handles) : h.key = key}

\* The operations in progress that will still ask for an identity.
WillAllocate == {t \in Threads : pc[t] \in {"cn_lock", "cn_factory"}}

CanAllocate == m_mbox_id_counter + Cardinality(WillAllocate) < MaxId

CanAllocateAnon == m_mbox_id_counter < MaxAnonId

Init ==
    /\ m_mbox_id_counter = 1
    /\ m_named_mboxes_dictionary = << >>
    /\ m_dictionary_lock = 0
    /\ msg_tracing_enabled \in BOOLEAN
    /\ heap = << >>
    /\ handles = EmptyBag
    /\ held = {}
    /\ pc = [t \in Threads |-> "idle"]
    /\ loc = [t \in Threads |-> IdleLocal]
    /\ id_log = << >>
    /\ gate_parity = 0
    /\ ever_bound = [k \in Keys |-> {}]
    /\ dropped = {}

\* ------------------------------------------------- create_named_mbox
\* The named handles that exist or are being made.
HandlesInUse ==
    BagCardinality(handles)
        + Cardinality({t \in Threads : loc[t].op = "create_named_mbox"})

\* An entry that refuses an empty namespace as it refuses an empty name.
create_named_mbox_call_strict(t, namespace_name, name) ==
    /\ pc[t] = "idle"
    /\ IF ~nonempty_name_t_ok(name) \/ ~nonempty_name_t_ok(namespace_name)
       THEN /\ pc' = [pc EXCEPT ![t] = "ret"]
            /\ loc' = [loc EXCEPT ![t] =
                   [IdleLocal EXCEPT !.op = "create_named_mbox",
                       !.key = full_named_mbox_id_t(namespace_name, name),
                       !.exc = "InvalidArgument"]]
       ELSE /\ CanAllocate
            /\ HandlesInUse < MaxHandles
            /\ pc' = [pc EXCEPT ![t] = "cn_lock"]
            /\ loc' = [loc EXCEPT ![t] =
                   [IdleLocal EXCEPT !.op = "create_named_mbox",
                       !.key = full_named_mbox_id_t(namespace_name, name)]]
    /\ UNCHANGED << m_mbox_id_counter, m_named_mboxes_dictionary,
                    m_dictionary_lock, msg_tracing_enabled, heap, handles,
                    held, history >>

\* The entry of create_named_mbox (also through create_mbox( env, name )):
\* a nonempty_name_t cannot be made of an empty name; otherwise the key is
\* built from the namespace and the name as they are.
create_named_mbox_call(t, namespace_name, name) ==
    /\ pc[t] = "idle"
    /\ IF ~nonempty_name_t_ok(name)
       THEN /\ pc' = [pc EXCEPT ![t] = "ret"]
            /\ loc' = [loc EXCEPT ![t] =
                   [IdleLocal EXCEPT !.op = "create_named_mbox",
                       !.key = full_named_mbox_id_t(namespace_name, name),
                       !.exc = "InvalidArgument"]]
       ELSE /\ CanAllocate
            /\ HandlesInUse < MaxHandles
            /\ pc' = [pc EXCEPT ![t] = "cn_lock"]
            /\ loc' = [loc EXCEPT ![t] =
                   [IdleLocal EXCEPT !.op = "create_named_mbox",
                       !.key = full_named_mbox_id_t(namespace_name, name)]]
    /\ UNCHANGED << m_mbox_id_counter, m_named_mboxes_dictionary,
                    m_dictionary_lock, msg_tracing_enabled, heap, handles,
                    held, history >>

\* A create that takes the lock and does not look the key up.
cn_lock_without_lookup(t) ==
    /\ pc[t] = "cn_lock"
    /\ m_dictionary_lock = 0
    /\ m_dictionary_lock' = t
    /\ loc' = [loc EXCEPT ![t].it = End,
                          ![t].before = m_named_mboxes_dictionary]
    /\ pc' = [pc EXCEPT ![t] = "cn_factory"]
    /\ UNCHANGED << m_mbox_id_counter, m_named_mboxes_dictionary,
                    msg_tracing_enabled, heap, handles, held, history >>

\* std::lock_guard lock( m_dictionary_lock ); it = dictionary.find( key )
cn_lock(t) ==
    /\ pc[t] = "cn_lock"
    /\ m_dictionary_lock = 0
    /\ m_dictionary_lock' = t
    /\ LET it == Find(m_named_mboxes_dictionary, loc[t].key)
       IN  /\ loc' = [loc EXCEPT ![t].it = it,
                                 ![t].before = m_named_mboxes_dictionary]
           /\ pc' = [pc EXCEPT ![t] =
                  IF it # End THEN "cn_attach_proxy" ELSE "cn_factory"]
    /\ UNCHANGED << m_mbox_id_counter, m_named_mboxes_dictionary,
                    msg_tracing_enabled, heap, handles, held, history >>

\* The attach that counts the reference before it makes the proxy.
cn_attach_proxy_count_first(t) ==
    /\ pc[t] = "cn_attach_proxy"
    /\ m_named_mboxes_dictionary' =
           IncrementRefCount(m_named_mboxes_dictionary, loc[t].it)
    /\ \E ok \in BOOLEAN :
          IF ok
          THEN /\ loc' = [loc EXCEPT ![t].result =
                      m_named_mboxes_dictionary[loc[t].it].m_mbox]
               /\ pc' = [pc EXCEPT ![t] = "cn_unlock"]
          ELSE /\ loc' = [loc EXCEPT ![t].exc = "bad_alloc"]
               /\ pc' = [pc EXCEPT ![t] = "cn_unlock"]
    /\ UNCHANGED << m_mbox_id_counter, m_dictionary_lock,
                    msg_tracing_enabled, heap, handles, held, history >>

\* The name is known: result = new named_local_mbox_t( key, it->m_mbox ),
\* which may throw; the count is not touched yet.
cn_attach_proxy(t) ==
    /\ pc[t] = "cn_attach_proxy"
    /\ \E ok \in BOOLEAN :
          IF ok
          THEN /\ loc' = [loc EXCEPT ![t].result =
                      m_named_mboxes_dictionary[loc[t].it].m_mbox]
               /\ pc' = [pc EXCEPT ![t] = "cn_incr"]
          ELSE /\ loc' = [loc EXCEPT ![t].exc = "bad_alloc"]
               /\ pc' = [pc EXCEPT ![t] = "cn_unlock"]
    /\ UNCHANGED << m_mbox_id_counter, m_named_mboxes_dictionary,
                    m_dictionary_lock, msg_tracing_enabled, heap, handles,
                    held, history >>

\* ++(it->second.m_external_ref_count)
cn_incr(t) ==
    /\ pc[t] = "cn_incr"
    /\ m_named_mboxes_dictionary' =
           IncrementRefCount(m_named_mboxes_dictionary, loc[t].it)
    /\ pc' = [pc EXCEPT ![t] = "cn_unlock"]
    /\ UNCHANGED << m_mbox_id_counter, m_dictionary_lock,
                    msg_tracing_enabled, heap, handles, held, loc,
                    history >>

\* The name is not known: factory() is create_mbox( env ), whose first
\* statement takes a new identity.
cn_factory(t) ==
    /\ pc[t] = "cn_factory"
    /\ LET id == PreIncrement(m_mbox_id_counter)
       IN  /\ m_mbox_id_counter' = id
           /\ id_log' = Append(id_log, id)
           /\ loc' = [loc EXCEPT ![t].id = id]
    /\ pc' = [pc EXCEPT ![t] = "cn_factory_make"]
    /\ UNCHANGED << m_named_mboxes_dictionary, m_dictionary_lock,
                    msg_tracing_enabled, heap, handles, held, gate_parity,
                    ever_bound, dropped >>

\* A factory other than create_mbox( env ): one that calls back into the
\* same mbox_core_t.  The first statement of create_named_mbox, destroy_mbox
\* and query_stats alike constructs a std::lock_guard< std::mutex > on
\* m_dictionary_lock, which the thread holds already.
cn_factory_reenter(t, inner) ==
    /\ pc[t] = "cn_factory"
    /\ pc' = [pc EXCEPT ![t] =
           IF inner = "destroy_mbox" THEN "fx_lock_noexcept" ELSE "fx_lock"]
    /\ UNCHANGED << m_mbox_id_counter, m_named_mboxes_dictionary,
                    m_dictionary_lock, msg_tracing_enabled, heap, handles,
                    held, loc, history >>

\* A mutex that lets its owner in again, as a recursive one does: the call
\* made by the factory returns and the factory goes on.
fx_lock_recursive(t) ==
    /\ pc[t] = "fx_lock"
    /\ pc' = [pc EXCEPT ![t] = "cn_factory"]
    /\ UNCHANGED << m_mbox_id_counter, m_named_mboxes_dictionary,
                    m_dictionary_lock, msg_tracing_enabled, heap, handles,
                    held, loc, history >>

\* std::mutex::lock() by the thread that owns the mutex is undefined: the
\* thread blocks for ever (no step), or the implementation detects it and
\* throws std::system_error.  The exception leaves the call the factory
\* made, the factory, and create_named_mbox; out of the noexcept
\* destroy_mbox it cannot leave, and the program ends there.
fx_lock_error(t) ==
    /\ pc[t] = "fx_lock"
    /\ loc' = [loc EXCEPT ![t].exc = "system_error"]
    /\ pc' = [pc EXCEPT ![t] = "cn_unlock"]
    /\ UNCHANGED << m_mbox_id_counter, m_named_mboxes_dictionary,
                    m_dictionary_lock, msg_tracing_enabled, heap, handles,
                    held, history >>

\* create_mbox( env ) then builds the local mbox, plain or traced; the
\* allocation may throw, and the exception leaves create_named_mbox.
cn_factory_make(t) ==
    /\ pc[t] = "cn_factory_make"
    /\ \E ok \in BOOLEAN :
          IF ok
          THEN /\ heap' = NewObject(heap, loc[t].id,
                      local_mbox(msg_tracing_enabled))
               /\ loc' = [loc EXCEPT ![t].mbox_ref = loc[t].id]
               /\ pc' = [pc EXCEPT ![t] = "cn_new_proxy"]
          ELSE /\ heap' = heap
               /\ loc' = [loc EXCEPT ![t].exc = "bad_alloc"]
               /\ pc' = [pc EXCEPT ![t] = "cn_unlock"]
    /\ UNCHANGED << m_mbox_id_counter, m_named_mboxes_dictionary,
                    m_dictionary_lock, msg_tracing_enabled, handles, held,
                    history >>

\* result = new named_local_mbox_t( key, mbox_ref ), which may throw.
cn_new_proxy(t) ==
    /\ pc[t] = "cn_new_proxy"
    /\ \E ok \in BOOLEAN :
          IF ok
          THEN /\ loc' = [loc EXCEPT ![t].result = loc[t].mbox_ref]
               /\ pc' = [pc EXCEPT ![t] = "cn_emplace"]
          ELSE /\ loc' = [loc EXCEPT ![t].exc = "bad_alloc"]
               /\ pc' = [pc EXCEPT ![t] = "cn_unlock"]
    /\ UNCHANGED << m_mbox_id_counter, m_named_mboxes_dictionary,
                    m_dictionary_lock, msg_tracing_enabled, heap, handles,
                    held, history >>

\* m_named_mboxes_dictionary.emplace( key, named_mbox_info_t( mbox_ref ) )
cn_emplace(t) ==
    /\ pc[t] = "cn_emplace"
    /\ m_named_mboxes_dictionary' =
           Emplace(m_named_mboxes_dictionary, loc[t].key,
                   named_mbox_info_t(loc[t].mbox_ref))
    /\ ever_bound' = [ever_bound EXCEPT ![loc[t].key] =
           @ \cup {m_named_mboxes_dictionary'[loc[t].key].m_mbox}]
    /\ pc' = [pc EXCEPT ![t] = "cn_unlock"]
    /\ UNCHANGED << m_mbox_id_counter, m_dictionary_lock,
                    msg_tracing_enabled, heap, handles, held, loc, id_log,
                    gate_parity, dropped >>

\* emplace itself may throw ("if there will be an exception then all new
\* objects will be destroyed automatically"): nothing is inserted.
cn_emplace_throw(t) ==
    /\ pc[t] = "cn_emplace"
    /\ loc' = [loc EXCEPT ![t].exc = "bad_alloc"]
    /\ pc' = [pc EXCEPT ![t] = "cn_unlock"]
    /\ UNCHANGED << m_mbox_id_counter, m_named_mboxes_dictionary,
                    m_dictionary_lock, msg_tracing_enabled, heap, handles,
                    held, history >>

\* An end of the function that unlocks on the return and not on an
\* exception, as an unlock() written before `return result` would.
cn_unlock_on_return_only(t) ==
    /\ pc[t] = "cn_unlock"
    /\ m_dictionary_lock' =
           IF loc[t].exc = "none" THEN 0 ELSE m_dictionary_lock
    /\ IF loc[t].exc # "none" /\ loc[t].result # 0
       THEN /\ pc' = [pc EXCEPT ![t] = "d_lock"]
            /\ UNCHANGED << loc, handles, heap >>
       ELSE Leave(t, IF loc[t].exc = "none"
                     THEN handles (+) SetToBag({[key |-> loc[t].key,
                                                 mbox |-> loc[t].result]})
                     ELSE handles, held)
    /\ UNCHANGED << m_mbox_id_counter, m_named_mboxes_dictionary,
                    msg_tracing_enabled, held, history >>

\* The end of the function, by return or by exception: the locals go in
\* reverse order, so the lock is released first and `result` after it.  A
\* named_local_mbox_t that was made and is not returned is destroyed then,
\* and its destructor calls destroy_mbox( key ).
cn_unlock(t) ==
    /\ pc[t] = "cn_unlock"
    /\ m_dictionary_lock' = 0
    /\ IF loc[t].exc # "none" /\ loc[t].result # 0
       THEN /\ pc' = [pc EXCEPT ![t] = "d_lock"]
            /\ UNCHANGED << loc, handles, heap >>
       ELSE Leave(t, IF loc[t].exc = "none"
                     THEN handles (+) SetToBag({[key |-> loc[t].key,
                                                 mbox |-> loc[t].result]})
                     ELSE handles, held)
    /\ UNCHANGED << m_mbox_id_counter, m_named_mboxes_dictionary,
                    msg_tracing_enabled, held, history >>

\* ------------------------------------------------------- destroy_mbox
\* destroy_mbox( name ) as ~named_local_mbox_t calls it: one call for the
\* handle h, with the handle's own key.
release_handle(t, h) ==
    /\ pc[t] = "idle"
    /\ BagIn(h, handles)
    /\ handles' = handles (-) SetToBag({h})
    /\ loc' = [loc EXCEPT ![t] =
           [IdleLocal EXCEPT !.op = "destroy_mbox", !.key = h.key]]
    /\ pc' = [pc EXCEPT ![t] = "d_lock"]
    /\ UNCHANGED << m_mbox_id_counter, m_named_mboxes_dictionary,
                    m_dictionary_lock, msg_tracing_enabled, heap, held,
                    history >>

\* A destroy_mbox that looks the name up without taking the lock.
d_lock_without_lock(t) ==
    /\ pc[t] = "d_lock"
    /\ LET it == Find(m_named_mboxes_dictionary, loc[t].key)
       IN  /\ loc' = [loc EXCEPT ![t].it = it,
                                 ![t].before = m_named_mboxes_dictionary]
           /\ pc' = [pc EXCEPT ![t] =
                  IF End # it THEN "d_dec" ELSE "d_unlock"]
    /\ UNCHANGED << m_mbox_id_counter, m_named_mboxes_dictionary,
                    m_dictionary_lock, msg_tracing_enabled, heap, handles,
                    held, history >>

\* std::lock_guard lock( m_dictionary_lock ); it = dictionary.find( name )
d_lock(t) ==
    /\ pc[t] = "d_lock"
    /\ m_dictionary_lock = 0
    /\ m_dictionary_lock' = t
    /\ LET it == Find(m_named_mboxes_dictionary, loc[t].key)
       IN  /\ loc' = [loc EXCEPT ![t].it = it,
                                 ![t].before = m_named_mboxes_dictionary]
           /\ pc' = [pc EXCEPT ![t] =
                  IF End # it THEN "d_dec" ELSE "d_unlock"]
    /\ UNCHANGED << m_mbox_id_counter, m_named_mboxes_dictionary,
                    msg_tracing_enabled, heap, handles, held, history >>

\* A destroy_mbox that erases the entry whatever the count has become.
d_dec_then_erase(t) ==
    /\ pc[t] = "d_dec"
    /\ m_named_mboxes_dictionary' =
           DecrementRefCount(m_named_mboxes_dictionary, loc[t].it)
    /\ loc' = [loc EXCEPT ![t].ref_count =
           m_named_mboxes_dictionary'[loc[t].it].m_external_ref_count]
    /\ pc' = [pc EXCEPT ![t] = "d_erase"]
    /\ UNCHANGED << m_mbox_id_counter, m_dictionary_lock,
                    msg_tracing_enabled, heap, handles, held, history >>

\* const unsigned int ref_count = --(it->second.m_external_ref_count)
d_dec(t) ==
    /\ pc[t] = "d_dec"
    /\ m_named_mboxes_dictionary' =
           DecrementRefCount(m_named_mboxes_dictionary, loc[t].it)
    /\ loc' = [loc EXCEPT ![t].ref_count =
           m_named_mboxes_dictionary'[loc[t].it].m_external_ref_count]
    /\ pc' = [pc EXCEPT ![t] =
           IF IsLastRef(loc'[t].ref_count) THEN "d_erase" ELSE "d_unlock"]
    /\ UNCHANGED << m_mbox_id_counter, m_dictionary_lock,
                    msg_tracing_enabled, heap, handles, held, history >>

\* if( 0 == ref_count ) m_named_mboxes_dictionary.erase( it )
d_erase(t) ==
    /\ pc[t] = "d_erase"
    /\ m_named_mboxes_dictionary' =
           Erase(m_named_mboxes_dictionary, loc[t].it)
    /\ pc' = [pc EXCEPT ![t] = "d_unlock"]
    /\ UNCHANGED << m_mbox_id_counter, m_dictionary_lock,
                    msg_tracing_enabled, heap, handles, held, loc,
                    history >>

\* The lock_guard goes out of scope.
d_unlock(t) ==
    /\ pc[t] = "d_unlock"
    /\ m_dictionary_lock' = 0
    /\ Leave(t, handles, held)
    /\ UNCHANGED << m_mbox_id_counter, m_named_mboxes_dictionary,
                    msg_tracing_enabled, held, history >>

\* -------------------------------------------------------- query_stats
query_stats_call(t) ==
    /\ pc[t] = "idle"
    /\ loc' = [loc EXCEPT ![t] = [IdleLocal EXCEPT !.op = "query_stats"]]
    /\ pc' = [pc EXCEPT ![t] = "qs_lock"]
    /\ UNCHANGED << m_mbox_id_counter, m_named_mboxes_dictionary,
                    m_dictionary_lock, msg_tracing_enabled, heap, handles,
                    held, history >>

\* A query_stats that reads the dictionary without taking the lock.
qs_lock_without_lock(t) ==
    /\ pc[t] = "qs_lock"
    /\ pc' = [pc EXCEPT ![t] = "qs_size"]
    /\ UNCHANGED << m_mbox_id_counter, m_named_mboxes_dictionary,
                    m_dictionary_lock, msg_tracing_enabled, heap, handles,
                    held, loc, history >>

\* std::lock_guard lock{ m_dictionary_lock }
qs_lock(t) ==
    /\ pc[t] = "qs_lock"
    /\ m_dictionary_lock = 0
    /\ m_dictionary_lock' = t
    /\ pc' = [pc EXCEPT ![t] = "qs_size"]
    /\ UNCHANGED << m_mbox_id_counter, m_named_mboxes_dictionary,
                    msg_tracing_enabled, heap, handles, held, loc,
                    history >>

\* mbox_core_stats_t{ m_named_mboxes_dictionary.size() }
qs_size(t) ==
    /\ pc[t] = "qs_size"
    /\ loc' = [loc EXCEPT ![t].stats =
           Cardinality(DOMAIN m_named_mboxes_dictionary)]
    /\ pc' = [pc EXCEPT ![t] = "qs_unlock"]
    /\ UNCHANGED << m_mbox_id_counter, m_named_mboxes_dictionary,
                    m_dictionary_lock, msg_tracing_enabled, heap, handles,
                    held, history >>

\* The lock_guard goes out of scope and the statistics are returned.
qs_unlock(t) ==
    /\ pc[t] = "qs_unlock"
    /\ m_dictionary_lock' = 0
    /\ Leave(t, handles, held)
    /\ UNCHANGED << m_mbox_id_counter, m_named_mboxes_dictionary,
                    msg_tracing_enabled, held, history >>

\* ------------------------------------- endpoints that have no name
AnonOps ==
    {"create_mbox", "create_ordinary_mpsc_mbox", "create_limitless_mpsc_mbox",
     "create_custom_mbox", "create_mchain"}

\* The anonymous endpoints that exist or are being made.
AnonInUse ==
    Cardinality(held) + Cardinality({t \in Threads : loc[t].op \in AnonOps})

\* An identity taken under the dictionary lock.
TakeId_under_lock(t, op, params) ==
    /\ pc[t] = "idle"
    /\ m_dictionary_lock = 0
    /\ m_dictionary_lock' = t
    /\ LET id == PreIncrement(m_mbox_id_counter)
       IN  /\ m_mbox_id_counter' = id
           /\ id_log' = Append(id_log, id)
           /\ loc' = [loc EXCEPT ![t] =
                  [IdleLocal EXCEPT !.op = op, !.id = id, !.params = params]]
    /\ UNCHANGED << m_named_mboxes_dictionary, msg_tracing_enabled, heap,
                    handles, held, gate_parity, ever_bound, dropped >>

\* const auto id = ++m_mbox_id_counter, the first statement of every
\* creating operation.
TakeId(t, op, params) ==
    /\ pc[t] = "idle"
    /\ LET id == PreIncrement(m_mbox_id_counter)
       IN  /\ m_mbox_id_counter' = id
           /\ id_log' = Append(id_log, id)
           /\ loc' = [loc EXCEPT ![t] =
                  [IdleLocal EXCEPT !.op = op, !.id = id, !.params = params]]
    /\ UNCHANGED << m_named_mboxes_dictionary, m_dictionary_lock,
                    msg_tracing_enabled, heap, handles, held, gate_parity,
                    ever_bound, dropped >>

\* The object is built and returned to the caller, who holds it from then
\* on; or the allocation throws, and nothing is built.
Build(t, op, type) ==
    /\ pc[t] = "make"
    /\ loc[t].op = op
    /\ \E ok \in BOOLEAN :
          IF ok
          THEN /\ heap' = NewObject(heap, loc[t].id, type)
               /\ held' = held \cup {loc[t].id}
          ELSE /\ heap' = heap
               /\ held' = held
    /\ loc' = [loc EXCEPT ![t] = IdleLocal]
    /\ pc' = [pc EXCEPT ![t] = "idle"]
    /\ UNCHANGED << m_mbox_id_counter, m_named_mboxes_dictionary,
                    m_dictionary_lock, msg_tracing_enabled, handles,
                    history >>

\* create_mbox( env ): auto id = ++m_mbox_id_counter
create_mbox_call(t) ==
    /\ AnonInUse < MaxHeld
    /\ TakeId(t, "create_mbox", NoParams)
    /\ pc' = [pc EXCEPT ![t] = "make"]

\* create_mbox( env ): the switch is read and the mbox is built.
create_mbox_make(t) ==
    Build(t, "create_mbox", local_mbox(msg_tracing_enabled))

create_ordinary_mpsc_mbox_call(t) ==
    /\ AnonInUse < MaxHeld
    /\ TakeId(t, "create_ordinary_mpsc_mbox", NoParams)
    /\ pc' = [pc EXCEPT ![t] = "make"]

create_ordinary_mpsc_mbox_make(t) ==
    Build(t, "create_ordinary_mpsc_mbox",
          make_actual_mbox(msg_tracing_enabled, "ordinary_mpsc_mbox"))

create_limitless_mpsc_mbox_call(t) ==
    /\ AnonInUse < MaxHeld
    /\ TakeId(t, "create_limitless_mpsc_mbox", NoParams)
    /\ pc' = [pc EXCEPT ![t] = "make"]

create_limitless_mpsc_mbox_make(t) ==
    Build(t, "create_limitless_mpsc_mbox",
          make_actual_mbox(msg_tracing_enabled, "limitless_mpsc_mbox"))

create_custom_mbox_call(t) ==
    /\ AnonInUse < MaxHeld
    /\ TakeId(t, "create_custom_mbox", NoParams)
    /\ pc' = [pc EXCEPT ![t] = "make"]

\* creator.create( mbox_creation_data_t{ env, id, tracing } ): what the
\* creator builds is its own business.
create_custom_mbox_make(t) ==
    Build(t, "create_custom_mbox",
          [kind |-> "custom", tracing |-> "unspecified"])

\* The memory usage looked at before the limit.
demand_queue_memory_first(params) ==
    IF "dynamic" = params.memory_usage
    THEN "limited_dynamic_demand_queue"
    ELSE IF params.unlimited
         THEN "unlimited_demand_queue"
         ELSE "limited_preallocated_demand_queue"

\* The demand queue create_mchain picks for the capacity of the params.
demand_queue(params) ==
    IF params.unlimited
    THEN "unlimited_demand_queue"
    ELSE IF "dynamic" = params.memory_usage
         THEN "limited_dynamic_demand_queue"
         ELSE "limited_preallocated_demand_queue"

create_mchain_call(t, params) ==
    /\ AnonInUse < MaxHeld
    /\ TakeId(t, "create_mchain", params)
    /\ pc' = [pc EXCEPT ![t] = "make"]

\* make_mchain< Q >( m_msg_tracing_stuff, params, env, id )
create_mchain_make(t) ==
    Build(t, "create_mchain",
          [kind |-> demand_queue(loc[t].params), tracing |-> "unspecified"])

\* allocate_mbox_id(): return ++m_mbox_id_counter
allocate_mbox_id(t) ==
    /\ pc[t] = "idle"
    /\ LET id == PreIncrement(m_mbox_id_counter)
       IN  /\ m_mbox_id_counter' = id
           /\ id_log' = Append(id_log, id)
    /\ UNCHANGED << m_named_mboxes_dictionary, m_dictionary_lock,
                    msg_tracing_enabled, heap, handles, held, pc, loc,
                    gate_parity, ever_bound, dropped >>

\* --------------------------------------------------------- the callers
\* The exception of a refused call reaches the caller.
Return(t) ==
    /\ pc[t] = "ret"
    /\ loc' = [loc EXCEPT ![t] = IdleLocal]
    /\ pc' = [pc EXCEPT ![t] = "idle"]
    /\ UNCHANGED << m_mbox_id_counter, m_named_mboxes_dictionary,
                    m_dictionary_lock, msg_tracing_enabled, heap, handles,
                    held, history >>

\* The last mbox_t (mchain_t) of an anonymous endpoint goes away.
drop_mbox(id) ==
    /\ id \in held
    /\ held' = held \ {id}
    /\ dropped' = dropped \cup {id}
    /\ heap' = Collect(heap, m_named_mboxes_dictionary, handles, loc, held')
    /\ UNCHANGED << m_mbox_id_counter, m_named_mboxes_dictionary,
                    m_dictionary_lock, msg_tracing_enabled, handles, pc, loc,
                    id_log, gate_parity, ever_bound >>

\* Message tracing is switched on or off.
toggle_msg_tracing ==
    /\ msg_tracing_enabled' = ~msg_tracing_enabled
    /\ gate_parity' = 1 - gate_parity
    /\ UNCHANGED << m_mbox_id_counter, m_named_mboxes_dictionary,
                    m_dictionary_lock, heap, handles, held, pc, loc, id_log,
                    ever_bound, dropped >>

\* ------------------------------------------------------ specifications
\* The steps of the operations on the dictionary, once they are called.
DictionarySteps ==
    \E t \in Threads :
        \/ cn_lock(t) \/ cn_attach_proxy(t) \/ cn_incr(t)
        \/ cn_factory(t) \/ cn_factory_make(t) \/ cn_new_proxy(t)
        \/ cn_emplace(t) \/ cn_unlock(t)
        \/ d_lock(t) \/ d_dec(t) \/ d_erase(t) \/ d_unlock(t)
        \/ qs_lock(t) \/ qs_size(t) \/ qs_unlock(t)
        \/ Return(t)

\* The calls a program makes on the dictionary: a named mbox is asked for
\* by namespace and name, and released by the destruction of its handles.
DictionaryCalls ==
    \/ \E t \in Threads, ns \in Namespaces, n \in Names :
           create_named_mbox_call(t, ns, n)
    \/ \E t \in Threads, h \in BagToSet(handles) : release_handle(t, h)
    \/ \E t \in Threads : query_stats_call(t)

\* The operations that make the endpoints without a name; message tracing
\* is switched from outside.
AnonymousOperations ==
    \/ \E t \in Threads :
           \/ CanAllocateAnon /\ create_mbox_call(t)
           \/ create_mbox_make(t)
           \/ CanAllocateAnon /\ create_ordinary_mpsc_mbox_call(t)
           \/ create_ordinary_mpsc_mbox_make(t)
           \/ CanAllocateAnon /\ create_limitless_mpsc_mbox_call(t)
           \/ create_limitless_mpsc_mbox_make(t)
           \/ CanAllocateAnon /\ create_custom_mbox_call(t)
           \/ create_custom_mbox_make(t)
           \/ create_mchain_make(t)
           \/ CanAllocateAnon /\ allocate_mbox_id(t)
    \/ \E t \in Threads, params \in CapacityParams :
           CanAllocateAnon /\ create_mchain_call(t, params)
    \/ \E id \in held : drop_mbox(id)
    \/ toggle_msg_tracing

\* The dictionary where every destroy_mbox releases a handle that
\* create_named_mbox returned: emplace never runs out of memory.
NextBalanced == DictionarySteps \/ DictionaryCalls

SpecBalanced == Init /\ [][NextBalanced]_vars

\* The dictionary of the program, emplace running out of memory included.
Next ==
    \/ DictionarySteps
    \/ DictionaryCalls
    \/ \E t \in Threads : cn_emplace_throw(t)

Spec == Init /\ [][Next]_vars

\* The creation of the endpoints without a name, and of identities.
SpecCreate == Init /\ [][AnonymousOperations]_vars

\* The whole registry at work: one thread is a client of the dictionary,
\* another one creates the endpoints without a name, one at a time, and
\* takes identities.
ClientThreads == {1}

CreatorThreads == {2}

\* The creator makes an endpoint when it keeps none.
CanCreate == CanAllocateAnon /\ held = {}

ClientCalls ==
    \/ \E t \in ClientThreads, ns \in Namespaces, n \in Names :
           create_named_mbox_call(t, ns, n)
    \/ \E t \in ClientThreads, h \in BagToSet(handles) : release_handle(t, h)
    \/ \E t \in ClientThreads : query_stats_call(t)

CreatorCalls ==
    \/ \E t \in CreatorThreads :
           \/ CanCreate /\ create_mbox_call(t)
           \/ create_mbox_make(t)
           \/ CanCreate /\ create_ordinary_mpsc_mbox_call(t)
           \/ create_ordinary_mpsc_mbox_make(t)
           \/ CanCreate /\ create_limitless_mpsc_mbox_call(t)
           \/ create_limitless_mpsc_mbox_make(t)
           \/ CanCreate /\ create_custom_mbox_call(t)
           \/ create_custom_mbox_make(t)
           \/ create_mchain_make(t)
           \/ CanAllocateAnon /\ allocate_mbox_id(t)
    \/ \E t \in CreatorThreads, params \in CapacityParams :
           CanCreate /\ create_mchain_call(t, params)
    \/ \E id \in held : drop_mbox(id)

NextRegistry ==
    \/ DictionarySteps
    \/ ClientCalls
    \/ CreatorCalls
    \/ \E t \in Threads : cn_emplace_throw(t)

SpecRegistry == Init /\ [][NextRegistry]_vars

\* A thread takes the lock it waits for.
Acquire(t) == cn_lock(t) \/ d_lock(t) \/ qs_lock(t)

\* A thread inside an operation goes on to its next statement.
Proceed(t) ==
    \/ cn_attach_proxy(t) \/ cn_incr(t)
    \/ cn_factory(t) \/ cn_factory_make(t) \/ cn_new_proxy(t)
    \/ cn_emplace(t) \/ cn_emplace_throw(t) \/ cn_unlock(t)
    \/ d_dec(t) \/ d_erase(t) \/ d_unlock(t)
    \/ qs_size(t) \/ qs_unlock(t)
    \/ Return(t)

\* Fair scheduling: a thread that can go on does so, and a thread that
\* waits for the lock gets it when the lock is free again and again.
Fairness ==
    \A t \in Threads : WF_vars(Proceed(t)) /\ SF_vars(Acquire(t))

SpecFair == Init /\ [][Next]_vars /\ Fairness

\* The dictionary with factories that call back into it.
ReentrantCalls == {"create_named_mbox", "destroy_mbox", "query_stats"}

NextReentrant ==
    \/ Next
    \/ \E t \in Threads, inner \in ReentrantCalls :
           cn_factory_reenter(t, inner)
    \/ \E t \in Threads : fx_lock_error(t)

SpecReentrant == Init /\ [][NextReentrant]_vars

\* The identities issued without a pause until the counter has seen every
\* value of an mbox_id_t and one more.
CanIssue == Len(id_log) <= 2 ^ mbox_id_bits

NextOverflow ==
    \E t \in Threads :
        \/ CanIssue /\ allocate_mbox_id(t)
        \/ CanIssue /\ create_mbox_call(t)
        \/ create_mbox_make(t)

SpecOverflow == Init /\ [][NextOverflow]_vars

TypeOK ==
    /\ m_mbox_id_counter \in 0 .. MaxCounter
    /\ m_dictionary_lock \in 0 .. NThreads
    /\ DOMAIN m_named_mboxes_dictionary \subseteq Keys
    /\ \A t \in Threads : loc[t].key.ns \in Namespaces

\* ------------------------------------------------------------ properties
\* The reference count of key in the dictionary, 0 when it has no entry.
CountOf(key) ==
    IF key \in DOMAIN m_named_mboxes_dictionary
    THEN m_named_mboxes_dictionary[key].m_external_ref_count
    ELSE 0

\* The handles of key that are alive, each counted as often as it exists.
LiveHandles(key) ==
    BagCardinality([h \in HandlesOf(key) |-> handles[h]])

\* The threads whose create or destroy for key is in progress.
InProgress(key) ==
    {t \in Threads : /\ loc[t].op \in {"create_named_mbox", "destroy_mbox"}
                     /\ loc[t].key = key
                     /\ pc[t] # "ret"}

\* The creates for key that have committed their reference and not yet
\* handed the handle over.
Committed(key) ==
    {t \in Threads : /\ pc[t] = "cn_unlock"
                     /\ loc[t].key = key
                     /\ loc[t].exc = "none"}

\* The releases for key that have taken a handle and not yet decremented.
Releasing(key) ==
    {t \in Threads : /\ pc[t] \in {"d_lock", "d_dec"}
                     /\ loc[t].key = key}

FactoryPath == {"cn_factory", "cn_factory_make", "cn_new_proxy", "cn_emplace"}

AttachPath == {"cn_attach_proxy", "cn_incr"}

\* C1: an entry is in the dictionary exactly while its reference count is
\* above zero: a count of zero is seen only by the thread that holds the
\* lock and erases that entry next, in the same critical section; an entry
\* is inserted with the count 1, bound to the endpoint the factory made.
C1_EntryIffCounted ==
    /\ \A k \in DOMAIN m_named_mboxes_dictionary :
          \/ m_named_mboxes_dictionary[k].m_external_ref_count > 0
          \/ \E t \in Threads : /\ m_dictionary_lock = t
                                /\ pc[t] = "d_erase"
                                /\ loc[t].it = k
    /\ m_dictionary_lock = 0 =>
          \A k \in DOMAIN m_named_mboxes_dictionary :
              m_named_mboxes_dictionary[k].m_external_ref_count > 0
    /\ \A t \in Threads :
          pc[t] = "cn_unlock" /\ loc[t].it = End /\ loc[t].exc = "none" =>
              /\ loc[t].key \in DOMAIN m_named_mboxes_dictionary
              /\ m_named_mboxes_dictionary[loc[t].key] =
                     [m_mbox |-> loc[t].mbox_ref, m_external_ref_count |-> 1]
    /\ \A t \in Threads :
          pc[t] = "d_unlock" /\ loc[t].it # End /\ loc[t].ref_count = 0 =>
              loc[t].it \notin DOMAIN m_named_mboxes_dictionary

\* A release has brought a count to zero and has erased the entry, still
\* inside its critical section, while another entry stays.
C1_Witness ==
    \E t \in Threads :
        /\ pc[t] = "d_unlock"
        /\ m_dictionary_lock = t
        /\ loc[t].it # End
        /\ loc[t].ref_count = 0
        /\ loc[t].it \notin DOMAIN m_named_mboxes_dictionary
        /\ loc[t].it \in DOMAIN loc[t].before

\* C2: while a handle of an earlier create for a pair is alive, the pair
\* is in the dictionary bound to that handle's endpoint, and a further
\* create for the pair attaches: it returns the same identity, takes no new
\* one, and changes the dictionary only by adding one to that entry's count.
C2_SecondCreateAttaches ==
    \A k \in Keys :
        HandlesOf(k) # {} =>
            /\ k \in DOMAIN m_named_mboxes_dictionary
            /\ \A h \in HandlesOf(k) :
                   h.mbox = m_named_mboxes_dictionary[k].m_mbox
            /\ \A t \in Committed(k) :
                   /\ loc[t].it = k
                   /\ loc[t].id = 0
                   /\ \A h \in HandlesOf(k) : loc[t].result = h.mbox
                   /\ m_named_mboxes_dictionary =
                          [loc[t].before EXCEPT
                              ![k].m_external_ref_count = @ + 1]

\* A second create for a pair has attached while the handle of the first
\* is alive: the count is 2.
C2_Witness ==
    \E k \in Keys, t \in Threads :
        /\ HandlesOf(k) # {}
        /\ t \in Committed(k)
        /\ loc[t].it = k
        /\ CountOf(k) = 2

\* C3: once every handle of a pair is released and no operation on the
\* pair is in progress, the pair has no entry; the create that then finds
\* the pair absent calls the factory, and the entry it inserts is bound to
\* the identity just taken, which the pair was never bound to before.
C3_ReleasedThenNew ==
    /\ \A k \in Keys :
          HandlesOf(k) = {} /\ InProgress(k) = {} =>
              k \notin DOMAIN m_named_mboxes_dictionary
    /\ \A t \in Threads :
          pc[t] \in AttachPath =>
              loc[t].key \in DOMAIN m_named_mboxes_dictionary
    /\ \A t \in Threads :
          pc[t] = "cn_emplace" =>
              /\ loc[t].mbox_ref = loc[t].id
              /\ loc[t].id = m_mbox_id_counter
              /\ loc[t].mbox_ref \notin ever_bound[loc[t].key]
    /\ \A t \in Threads :
          pc[t] = "cn_unlock" /\ loc[t].it = End /\ loc[t].exc = "none" =>
              /\ loc[t].result = loc[t].id
              /\ m_named_mboxes_dictionary[loc[t].key].m_mbox = loc[t].id

\* A pair that was bound before and was released is about to get its new
\* entry.
C3_Witness ==
    \E t \in Threads :
        /\ pc[t] = "cn_emplace"
        /\ ever_bound[loc[t].key] # {}
        /\ HandlesOf(loc[t].key) = {}

\* C4: the identities are issued in strictly increasing order, whichever
\* operation and thread takes them, so no two operations get the same one
\* and the identity of a destroyed endpoint is never issued again.
C4_IdsUnique ==
    /\ \A i, j \in 1 .. Len(id_log) : i < j => id_log[i] < id_log[j]
    /\ \A i \in 1 .. Len(id_log) : id_log[i] <= m_mbox_id_counter
    /\ \A t1, t2 \in Threads :
          t1 # t2 /\ loc[t1].id # 0 => loc[t1].id # loc[t2].id
    /\ \A t \in Threads : loc[t].id \notin dropped \cup DOMAIN heap
    /\ dropped \cap DOMAIN heap = {}

\* An endpoint was destroyed, and a later operation has built an endpoint
\* with its own identity while a third identity is being used.
C4_Witness ==
    \E d \in dropped, i \in DOMAIN heap, t \in Threads :
        /\ d < i
        /\ loc[t].id > i

\* C5: with threads creating and releasing the same pair concurrently, the
\* count of the pair is the number of creates that have committed minus
\* the number of releases that have decremented, it is never below zero,
\* and when nothing is outstanding the pair has no entry.
C5_CountIsOutstanding ==
    \A k \in Keys :
        LET outstanding == LiveHandles(k) + Cardinality(Committed(k))
                               + Cardinality(Releasing(k))
        IN  /\ CountOf(k) = outstanding
            /\ CountOf(k) >= 0
            /\ outstanding = 0 /\ (\A t \in Threads : pc[t] # "d_erase") =>
                   k \notin DOMAIN m_named_mboxes_dictionary

\* Four references were taken for one pair, and two threads release theirs
\* at the same time.
C5_Witness ==
    \E k \in Keys, t1, t2 \in Threads :
        /\ t1 # t2
        /\ pc[t1] = "d_dec" /\ loc[t1].key = k
        /\ pc[t2] = "d_lock" /\ loc[t2].key = k
        /\ CountOf(k) = 4

\* C6: the factory is called exactly by a create that found its key absent
\* with the lock held: a thread between the factory and the insertion holds
\* the lock, its key has no entry and it has found none; a thread that
\* attaches holds the lock, its key has an entry and it took no identity.
\* Of the creates racing on an absent key one inserts, the others attach.
C6_FactoryIffAbsent ==
    /\ \A t \in Threads :
          pc[t] \in FactoryPath =>
              /\ m_dictionary_lock = t
              /\ loc[t].it = End
              /\ loc[t].key \notin DOMAIN m_named_mboxes_dictionary
              /\ loc[t].key \notin DOMAIN loc[t].before
    /\ \A t \in Threads :
          pc[t] \in AttachPath =>
              /\ m_dictionary_lock = t
              /\ loc[t].it = loc[t].key
              /\ loc[t].key \in DOMAIN loc[t].before
              /\ loc[t].id = 0
    /\ \A t \in Threads :
          pc[t] = "cn_unlock" /\ loc[t].op = "create_named_mbox" =>
              (loc[t].id # 0 <=> loc[t].key \notin DOMAIN loc[t].before)
    /\ Cardinality({t \in Threads : pc[t] \in FactoryPath \cup AttachPath})
           <= 1

\* Two creates race on one absent key: one has inserted the entry and the
\* other still waits for the lock.
C6_Witness ==
    \E t1, t2 \in Threads :
        /\ t1 # t2
        /\ loc[t1].key = loc[t2].key
        /\ pc[t1] = "cn_unlock" /\ loc[t1].it = End /\ loc[t1].exc = "none"
        /\ pc[t2] = "cn_lock"

\* C7: a destroy_mbox whose key has no entry when it takes the lock does
\* nothing: it goes straight to the release of the lock, the dictionary is
\* the one it found, and it raises no exception.
C7_AbsentDestroyIsNoOp ==
    \A t \in Threads :
        /\ pc[t] \in {"d_dec", "d_erase", "d_unlock"}
               /\ loc[t].key \notin DOMAIN loc[t].before =>
              /\ pc[t] = "d_unlock"
              /\ loc[t].it = End
              /\ m_named_mboxes_dictionary = loc[t].before
        /\ loc[t].op = "destroy_mbox" => loc[t].exc = "none"

\* A destroy_mbox has found no entry for its key while the dictionary
\* holds another entry.
C7_Witness ==
    \E t \in Threads :
        /\ pc[t] = "d_unlock"
        /\ loc[t].key \notin DOMAIN loc[t].before
        /\ m_named_mboxes_dictionary # << >>

\* C8: when the factory or the construction of the proxy fails, the
\* exception leaves create_named_mbox with the dictionary exactly as the
\* call found it, and no handle is returned.
C8_FailureLeavesDictionary ==
    \A t \in Threads :
        pc[t] = "cn_unlock" /\ loc[t].exc # "none" /\ loc[t].result = 0 =>
            /\ m_named_mboxes_dictionary = loc[t].before
            /\ loc[t].exc = "bad_alloc"

\* The proxy of an attach could not be made, the entry being there.
C8_Witness ==
    \E t \in Threads :
        /\ pc[t] = "cn_unlock"
        /\ loc[t].exc # "none"
        /\ loc[t].result = 0
        /\ loc[t].it # End
        /\ CountOf(loc[t].key) >= 1

C9_RefusedStep ==
    \A t \in Threads :
        pc'[t] # pc[t] /\ "ret" \in {pc[t], pc'[t]} =>
            /\ m_named_mboxes_dictionary' = m_named_mboxes_dictionary
            /\ m_dictionary_lock' = m_dictionary_lock
            /\ m_mbox_id_counter' = m_mbox_id_counter
            /\ handles' = handles

Traceable == {"local_mbox", "ordinary_mpsc_mbox", "limitless_mpsc_mbox"}

\* An endpoint that exists stays what it was built as.
C10_EndpointKeepsType ==
    \A i \in DOMAIN heap \cap DOMAIN heap' : heap'[i] = heap[i]

\* C10: the sibling of an endpoint is picked by the tracing switch as it
\* is when the endpoint is built and never changes afterwards: two
\* endpoints, mpmc or mpsc, are of different siblings exactly when the
\* switch was toggled an odd number of times between their creations.
C10_VariantFixedAtCreation ==
    /\ [](\A i, j \in DOMAIN heap :
             heap[i].type.kind \in Traceable /\ heap[j].type.kind \in Traceable
                 => /\ heap[i].type.tracing \in
                           {"without_tracing", "with_tracing"}
                    /\ (heap[i].born # heap[j].born
                            <=> heap[i].type.tracing # heap[j].type.tracing))
    /\ [][C10_EndpointKeepsType]_vars

\* Two endpoints of one kind are of different siblings, and the switch
\* was toggled again after the second was built.
C10_Witness ==
    \E i, j \in DOMAIN heap :
        /\ i < j
        /\ heap[i].type.kind = heap[j].type.kind
        /\ heap[i].type.kind \in Traceable
        /\ heap[i].type.tracing # heap[j].type.tracing
        /\ heap[j].type.tracing =
               (IF msg_tracing_enabled THEN "without_tracing"
                                       ELSE "with_tracing")

\* The positions at which a thread is inside a critical section of the
\* dictionary: after the lock_guard is constructed, before it is destroyed.
CriticalSection ==
    {"cn_attach_proxy", "cn_incr", "cn_factory", "cn_factory_make",
     "cn_new_proxy", "cn_emplace", "cn_unlock", "d_dec", "d_erase",
     "d_unlock", "qs_size", "qs_unlock"}

\* A step of query_stats leaves the dictionary as it is.
C11_QueryStep ==
    \A t \in Threads :
        /\ pc'[t] # pc[t]
        /\ "query_stats" \in {loc[t].op, loc'[t].op}
        => m_named_mboxes_dictionary' = m_named_mboxes_dictionary

\* C11: query_stats returns the number of entries the dictionary has while
\* the caller holds the lock: no other thread is inside a critical section
\* then, no entry has the count 0 of a half-done release, and no step of
\* query_stats changes the dictionary.
C11_StatsAtomic ==
    /\ [](\A t \in Threads :
             /\ pc[t] \in {"qs_size", "qs_unlock"} => m_dictionary_lock = t
             /\ pc[t] = "qs_unlock" =>
                    /\ loc[t].stats =
                           Cardinality(DOMAIN m_named_mboxes_dictionary)
                    /\ \A u \in Threads \ {t} : pc[u] \notin CriticalSection
                    /\ \A k \in DOMAIN m_named_mboxes_dictionary :
                           m_named_mboxes_dictionary[k].m_external_ref_count
                               > 0)
    /\ [][C11_QueryStep]_vars

\* query_stats has counted two entries while another thread waits for the
\* lock to change the dictionary.
C11_Witness ==
    \E t, u \in Threads :
        /\ pc[t] = "qs_unlock"
        /\ loc[t].stats = 2
        /\ pc[u] \in {"cn_lock", "d_lock"}

\* A step of an operation that creates an endpoint without a name, or of
\* allocate_mbox_id.
AnonymousStep ==
    \/ \E t \in Threads :
           /\ pc'[t] # pc[t]
           /\ loc[t].op \in AnonOps \/ loc'[t].op \in AnonOps
    \/ m_mbox_id_counter' # m_mbox_id_counter /\ pc' = pc

\* C12: the creation of an mbox without a name, of an mpsc mbox, of a
\* custom mbox or of an mchain, and allocate_mbox_id, never touch the
\* dictionary lock: none of their steps changes it, a thread inside one of
\* them never holds it, and the step that builds the endpoint can be taken
\* whoever holds the lock.
C12_AnonymousLockFree ==
    /\ [](\A t \in Threads :
             loc[t].op \in AnonOps =>
                 /\ m_dictionary_lock # t
                 /\ pc[t] = "make"
                 /\ ENABLED (\/ create_mbox_make(t)
                             \/ create_ordinary_mpsc_mbox_make(t)
                             \/ create_limitless_mpsc_mbox_make(t)
                             \/ create_custom_mbox_make(t)
                             \/ create_mchain_make(t)))
    /\ [][AnonymousStep => m_dictionary_lock' = m_dictionary_lock]_vars

\* A create_named_mbox took its identity under the lock and still holds the
\* lock, and an endpoint without a name was made, identity and all, in the
\* meantime.
C12_Witness ==
    \E u \in Threads, i \in held :
        /\ m_dictionary_lock = u
        /\ pc[u] = "cn_factory_make"
        /\ loc[u].id < i
        /\ i \in DOMAIN heap

\* The queue discipline of each capacity policy.
QueueOfPolicy(unlimited, memory_usage) ==
    CASE unlimited -> "unlimited_demand_queue"
      [] ~unlimited /\ memory_usage = "dynamic" ->
             "limited_dynamic_demand_queue"
      [] ~unlimited /\ memory_usage = "preallocated" ->
             "limited_preallocated_demand_queue"

\* What the two steps of create_mchain do.
C13_MchainStep ==
    \A t \in Threads :
        /\ loc'[t].op = "create_mchain" /\ pc[t] = "idle" =>
              /\ loc'[t].id = m_mbox_id_counter'
              /\ \A i \in 1 .. Len(id_log) : id_log[i] # loc'[t].id
              /\ id_log' = Append(id_log, loc'[t].id)
        /\ loc[t].op = "create_mchain" /\ pc'[t] = "idle" =>
              /\ m_mbox_id_counter' = m_mbox_id_counter
              /\ id_log' = id_log
              /\ loc[t].id \in DOMAIN heap' =>
                     heap'[loc[t].id].type.kind =
                         QueueOfPolicy(loc[t].params.unlimited,
                                       loc[t].params.memory_usage)

\* C13: create_mchain builds the mchain over the demand queue of the
\* capacity policy (unlimited; limited and dynamic; limited and
\* preallocated), whatever else the call finds, and takes exactly one
\* identity, which no earlier operation got.
C13_QueueByCapacity ==
    /\ [](\A t \in Threads :
             loc[t].op = "create_mchain" =>
                 /\ loc[t].id \notin DOMAIN heap
                 /\ Cardinality({i \in 1 .. Len(id_log) :
                                    id_log[i] = loc[t].id}) = 1)
    /\ [](\A i \in DOMAIN heap :
             heap[i].type.kind \in
                 {"unlimited_demand_queue", "limited_dynamic_demand_queue",
                  "limited_preallocated_demand_queue"}
                 => heap[i].type.tracing = "unspecified")
    /\ [][C13_MchainStep]_vars

\* A limited preallocated mchain exists and an unlimited one, whose
\* params say dynamic, is about to be built.
C13_Witness ==
    \E i \in DOMAIN heap, t \in Threads :
        /\ heap[i].type.kind = "limited_preallocated_demand_queue"
        /\ pc[t] = "make"
        /\ loc[t].op = "create_mchain"
        /\ loc[t].params.unlimited
        /\ loc[t].params.memory_usage = "dynamic"

\* A change of the dictionary is a step of the thread that holds the lock.
C15_WriteUnderLock ==
    m_named_mboxes_dictionary' # m_named_mboxes_dictionary =>
        /\ m_dictionary_lock \in Threads
        /\ m_dictionary_lock' = m_dictionary_lock
        /\ pc[m_dictionary_lock] \in CriticalSection
        /\ pc'[m_dictionary_lock] # pc[m_dictionary_lock]

\* C15: a thread is inside a critical section of create_named_mbox,
\* destroy_mbox or query_stats exactly while it holds the lock, so at most
\* one thread is; and the dictionary (entries and counts) changes only by a
\* step of the thread that holds the lock.
C15_DictionaryUnderLock ==
    /\ [](\A t \in Threads :
             pc[t] \in CriticalSection <=> m_dictionary_lock = t)
    /\ [](Cardinality({t \in Threads : pc[t] \in CriticalSection}) <= 1)
    /\ [][C15_WriteUnderLock]_vars

\* A release is about to decrement under the lock while another thread
\* waits for the lock.
C15_Witness ==
    \E t, u \in Threads :
        /\ pc[t] = "d_dec"
        /\ m_dictionary_lock = t
        /\ pc[u] \in {"cn_lock", "d_lock", "qs_lock"}

\* C14: when the counter is at the largest value of an mbox_id_t, the next
\* allocation of an identity fails: the counter does not go on to a value
\* it had before, and no identity is issued.
C14_ExhaustionReported ==
    [][m_mbox_id_counter = MaxCounter =>
           /\ m_mbox_id_counter' = MaxCounter
           /\ id_log' = id_log]_vars

\* Where a thread is whose factory has called back into the dictionary
\* and stands at the lock it holds itself.
Reentered == {"fx_lock", "fx_lock_noexcept"}

C16_ReenteredStep ==
    \A t \in Threads :
        pc[t] \in Reentered =>
            /\ m_dictionary_lock' = t
            /\ m_named_mboxes_dictionary' = m_named_mboxes_dictionary
            /\ pc[t] = "fx_lock_noexcept" => pc'[t] = pc[t]
            /\ pc'[t] # pc[t] =>
                   /\ pc'[t] = "cn_unlock"
                   /\ loc'[t].exc = "system_error"
                   /\ loc'[t].result = 0

ReleasingReturned(key) ==
    {t \in Releasing(key) : loc[t].op = "destroy_mbox"}

\* C17: every returned handle causes one destroy_mbox when it is
\* destroyed and nothing else takes a reference away: a count goes down
\* only in the destroy_mbox of a returned handle, and the count of every
\* key is the number of its handles returned and not yet destroyed (with
\* those being handed over and those whose release has not yet reached the
\* dictionary).
C17_CountIsReturnedHandles ==
    /\ [](\A k \in Keys :
             CountOf(k) = LiveHandles(k) + Cardinality(Committed(k))
                              + Cardinality(ReleasingReturned(k)))
    /\ [][\A k \in Keys :
             CountOf(k)' < CountOf(k) =>
                 \E t \in Threads : /\ pc[t] = "d_dec"
                                    /\ loc[t].key = k
                                    /\ loc[t].op = "destroy_mbox"]_vars

\* C18: when every destroy_mbox is the release of a returned handle, the
\* handles of a key that are not yet released, and those being handed
\* over, all wrap the endpoint the key's entry is bound to, and that
\* endpoint exists; an entry is erased only when no handle of its key is
\* left, so no live handle refers to an endpoint whose entry was erased
\* and replaced.
C18_HandlesWrapCurrentEntry ==
    /\ [](\A k \in Keys :
             /\ \A h \in HandlesOf(k) :
                    /\ k \in DOMAIN m_named_mboxes_dictionary
                    /\ m_named_mboxes_dictionary[k].m_mbox = h.mbox
                    /\ h.mbox \in DOMAIN heap
                    /\ h.mbox \in ever_bound[k]
             /\ \A t \in Committed(k) :
                    /\ k \in DOMAIN m_named_mboxes_dictionary
                    /\ m_named_mboxes_dictionary[k].m_mbox = loc[t].result)
    /\ [][\A k \in DOMAIN m_named_mboxes_dictionary :
             \/ /\ k \in DOMAIN m_named_mboxes_dictionary'
                /\ m_named_mboxes_dictionary'[k].m_mbox =
                       m_named_mboxes_dictionary[k].m_mbox
             \/ /\ k \notin DOMAIN m_named_mboxes_dictionary'
                /\ HandlesOf(k) = {}
                /\ Committed(k) = {}]_vars

\* The entry of a key was erased and made anew, bound to another endpoint,
\* and a handle of the new entry is alive.
C18_Witness ==
    \E k \in Keys :
        \E h \in HandlesOf(k) :
            /\ ever_bound[k] \ {h.mbox} # {}
            /\ m_named_mboxes_dictionary[k].m_mbox = h.mbox

\* What the dictionary holds for key: its entry, or a count of 0 with no
\* endpoint when it has none.
EntryOf(dict, key) ==
    IF key \in DOMAIN dict
    THEN dict[key]
    ELSE [m_mbox |-> 0, m_external_ref_count |-> 0]

AtLock == {"cn_lock", "d_lock", "qs_lock"}

\* C20: create_named_mbox, destroy_mbox and query_stats release the lock
\* on every way out, by return or by exception: the step that leaves the
\* critical section frees the lock, and a thread outside an operation or
\* waiting for the lock does not hold it.  Hence, with fair scheduling,
\* every call that was started completes, whatever calls failed before.
C20_LockReleasedCallsComplete ==
    /\ [](\A t \in Threads :
             pc[t] \in AtLock \cup {"idle", "ret"} => m_dictionary_lock # t)
    /\ [][\A t \in Threads :
             pc[t] \in CriticalSection /\ pc'[t] \notin CriticalSection =>
                 /\ pc[t] \in {"cn_unlock", "d_unlock", "qs_unlock"}
                 /\ m_dictionary_lock' = 0]_vars
    /\ \A t \in Threads : (pc[t] # "idle") ~> (pc[t] = "idle")

\* A create has failed inside the critical section and is about to leave
\* it, while another thread waits for the lock.
C20_Witness ==
    \E t, u \in Threads :
        /\ pc[t] = "cn_unlock"
        /\ loc[t].exc # "none"
        /\ m_dictionary_lock = t
        /\ pc[u] \in AtLock

====
